---- MODULE Spec2Model ----
(***************************************************************************)
(* Model of the Gym Face Detection API (src/gym_api/app.py): the in-memory *)
(* event list EVENTS, the debounce cache LAST_SEEN, the events file and    *)
(* the gallery file, and the request handlers /enroll, /match, /events,    *)
(* /events/clear, each cut at the points where another request can run.    *)
(*                                                                         *)
(* Units: timestamps are integer milliseconds (an ISO-8601 string and the  *)
(* float of datetime.timestamp() denote the same instant); cosine scores   *)
(* are integers in units of 1e-4, rounded scores in units of 1e-3.         *)
(* Handlers declared "def" run in threadpool threads and interleave at     *)
(* every step; handlers declared "async def" run on the one event loop and *)
(* give way to each other only at an await.                                *)
(***************************************************************************)
EXTENDS Integers, Sequences, FiniteSets, TLC

VARIABLES EVENTS, LAST_SEEN, eventsFile, galleryFile, now, started, pc, args, loc

vars == <<EVENTS, LAST_SEEN, eventsFile, galleryFile, now, started, pc, args, loc>>

(* ------------------------------ bounds -------------------------------- *)
MaxRequests == 3
MaxFiles == 2

(* ----------------------------- constants ------------------------------ *)
DEDUPE_WINDOW_SEC == 30
WindowMs == DEDUPE_WINDOW_SEC * 1000

Threads == {"t1", "t2"}
Persons == {"alice", "bob", "unknown"}
Cameras == {"cam1", "cam2"}
Names == {"alice", "bob"}
Times == {0, WindowMs - 1, WindowMs, WindowMs + 1}
PostedScores == {8126}
\* The (person, camera) pairs POST /events is called with, and /match's cameras.
PostedKeys == {<<"alice", "cam1">>, <<"alice", "cam2">>}
MatchCameras == {"cam1"}
Thresholds == {7071, 9000}
Images == {"imgA", "imgB", "blank", "junk"}
\* The frames sent to /match.
QueryImages == {"imgA", "imgB", "blank"}

\* Python's None where a timestamp is expected (LAST_SEEN.get of an absent key,
\* Event.timestamp omitted).
NoTs == -1
Keys == Persons \X Cameras
AsyncOps == {"match", "enroll"}

(* ------------------------- serialisation ------------------------------ *)
\* One token of a file's text: a bracket or one serialised object.
Tok(s) == [tok |-> s, val |-> <<>>]
ObjTok(v) == [tok |-> "obj", val |-> <<v>>]

IsObjs(text) == \A i \in 1..Len(text) : text[i].tok = "obj"

Body(text) == SubSeq(text, 2, Len(text) - 1)

\* json.dumps(EVENTS, indent=2): a JSON array, one object per event, in list order.
DumpsEvents(list) ==
  <<Tok("[")>> \o [i \in 1..Len(list) |-> ObjTok(list[i])] \o <<Tok("]")>>

\* json.loads of the events file: the list, or a parse error.
ParsesAsList(text) ==
  /\ Len(text) >= 2
  /\ text[1] = Tok("[")
  /\ text[Len(text)] = Tok("]")
  /\ IsObjs(Body(text))

LoadsEvents(text) == [i \in 1..(Len(text) - 2) |-> text[i + 1].val[1]]

\* json.dumps(gal, indent=2): a JSON object, one member per name, in dict order.
DumpsGallery(gal) ==
  <<Tok("{")>> \o [i \in 1..Len(gal) |-> ObjTok(gal[i])] \o <<Tok("}")>>

ParsesAsDict(text) ==
  /\ Len(text) >= 2
  /\ text[1] = Tok("{")
  /\ text[Len(text)] = Tok("}")
  /\ IsObjs(Body(text))

LoadsGallery(text) == [i \in 1..(Len(text) - 2) |-> text[i + 1].val[1]]

\* Path.write_text, first half: open(mode="w") creates or truncates the file.
OpenTruncate(file) == [exists |-> TRUE, text |-> <<>>]

\* Path.write_text, second half: the data goes to offset 0 of the opened file;
\* what another writer put beyond its length stays.
WriteAt0(file, data) ==
  [exists |-> TRUE,
   text |-> data \o SubSeq(file.text, Len(data) + 1, Len(file.text))]

NoFile == [exists |-> FALSE, text |-> <<>>]

\* EVENTS bound to the dict that json.loads makes of a file holding a JSON
\* object: iterable and of length 0 when empty, but no list (it has no append).
NotAList == <<[py |-> "dict"]>>

\* len(EVENTS).
PyLen(x) == IF x = NotAList THEN 0 ELSE Len(x)

(* ------------------------- thread-local state ------------------------- *)
NoArgs ==
  [op |-> "none", person |-> "", camera |-> "", score |-> 0, timestamp |-> NoTs,
   name |-> "", files |-> <<>>, image |-> "", thr |-> 0]

\* What the folder worker's POST /events keeps of the /match of its frame, for
\* stating what the frame changed: the list before the /match, the /match's
\* answer and debounce key, its timestamp and the key's last time before it.
NoFrame ==
  [posted |-> FALSE, EVENTS |-> <<>>, is_match |-> FALSE, logged |-> FALSE,
   key |-> <<"", "">>, ts |-> NoTs, last |-> NoTs]

NoLoc ==
  [ts |-> NoTs, last_ts |-> NoTs, accepted |-> FALSE, text |-> <<>>,
   gal |-> <<>>, embs |-> <<>>, i |-> 0,
   best_name |-> "", best_score |-> 0, is_match |-> FALSE, scores |-> <<>>,
   logged |-> FALSE, status |-> "", count |-> 0, body |-> <<>>,
   frame |-> NoFrame,
   pre |-> [EVENTS |-> <<>>, LAST_SEEN |-> <<>>, eventsFile |-> NoFile,
            galleryFile |-> NoFile]]

\* The gallery file found at startup: none, one holding {}, or one that earlier
\* enrollments left; in the last, bob was enrolled before alice from the same image.
InitGalleryFiles ==
  {NoFile,
   [exists |-> TRUE, text |-> DumpsGallery(<<>>)],
   [exists |-> TRUE,
    text |-> DumpsGallery(<<[name |-> "alice", vec |-> <<6, 0>>],
                            [name |-> "bob", vec |-> <<3, 3>>]>>)],
   [exists |-> TRUE,
    text |-> DumpsGallery(<<[name |-> "bob", vec |-> <<6, 0>>],
                            [name |-> "alice", vec |-> <<6, 0>>]>>)]}

Init ==
  /\ EVENTS = <<>>
  /\ LAST_SEEN = [k \in Keys |-> NoTs]
  /\ eventsFile = NoFile
  /\ galleryFile \in InitGalleryFiles
  /\ now = 0
  /\ started = 0
  /\ pc = [t \in Threads |-> "idle"]
  /\ args = [t \in Threads |-> NoArgs]
  /\ loc = [t \in Threads |-> NoLoc]

(* ------------------------------ helpers ------------------------------- *)
\* round(x, 3) of a score held in units of 1e-4, giving units of 1e-3.
Round3(x) == IF x >= 0 THEN (x + 5) \div 10 ELSE -((-x + 5) \div 10)

Set(t, newpc, newloc) ==
  /\ pc' = [pc EXCEPT ![t] = newpc]
  /\ loc' = [loc EXCEPT ![t] = newloc]

\* No other coroutine is between two of its awaits: the event loop runs one at a time.
OnLoop(t) ==
  /\ args[t].op \in AsyncOps
  /\ pc[t] \notin {"idle", "m_await", "e_await", "done"}

LoopFree(t) == \A q \in Threads \ {t} : ~OnLoop(q)

\* A step of thread t's handler may run: threadpool handlers always, coroutines
\* only while no other coroutine is running.
MayRun(t) == args[t].op \in AsyncOps => LoopFree(t)

\* The locals of a handler that starts now; pre keeps the shared state it started
\* from, for stating what the request changed.
Fresh ==
  [NoLoc EXCEPT !.pre = [EVENTS |-> EVENTS, LAST_SEEN |-> LAST_SEEN,
                         eventsFile |-> eventsFile, galleryFile |-> galleryFile]]

\* A thread takes a request; the requests taken are capped at MaxRequests.
Take ==
  /\ started < MaxRequests
  /\ started' = started + 1

\* The event a handler appends (app.py 159-164 and 184-189).
NewEvent(t) ==
  IF args[t].op = "match"
  THEN [person |-> loc[t].best_name, score |-> Round3(loc[t].best_score),
        camera |-> args[t].camera, timestamp |-> loc[t].ts]
  ELSE [person |-> args[t].person, score |-> Round3(args[t].score),
        camera |-> args[t].camera, timestamp |-> loc[t].ts]

\* The key _should_log is called with.
KeyOf(t) ==
  IF args[t].op = "match"
  THEN <<loc[t].best_name, args[t].camera>>
  ELSE <<args[t].person, args[t].camera>>

(* --------------------------- POST /events ----------------------------- *)
\* add_event, line 182: ts = ev.timestamp or utcnow().isoformat(); then the call
\* of _should_log begins.
add_event(t) ==
  /\ pc[t] = "idle"
  /\ Take
  /\ \E k \in PostedKeys, s \in PostedScores, ts \in Times \cup {NoTs} :
       /\ args' = [args EXCEPT ![t] =
            [NoArgs EXCEPT !.op = "add_event", !.person = k[1], !.camera = k[2],
                           !.score = s, !.timestamp = ts]]
       /\ Set(t, "sl_get", [Fresh EXCEPT !.ts = IF ts = NoTs THEN now ELSE ts])
  /\ UNCHANGED <<EVENTS, LAST_SEEN, eventsFile, galleryFile, now>>

\* _should_log, line 60: last_ts = LAST_SEEN.get(key).
should_log_get(t) ==
  /\ pc[t] = "sl_get"
  /\ MayRun(t)
  /\ Set(t, "sl_check", [loc[t] EXCEPT !.last_ts = LAST_SEEN[KeyOf(t)]])
  /\ UNCHANGED <<EVENTS, LAST_SEEN, eventsFile, galleryFile, now, started, args>>

\* Mutant of Rejects: the window's last instant is still inside it.
RejectsInclusive(last_ts, ts) == last_ts # NoTs /\ ts - last_ts <= WindowMs

\* _should_log, lines 61-64: the call is rejected.
Rejects(last_ts, ts) == last_ts # NoTs /\ ts - last_ts < WindowMs

\* Mutant of should_log_check: an accepted call records its timestamp only for
\* a key that has none yet.
should_log_check_first_only(t) ==
  /\ pc[t] = "sl_check"
  /\ MayRun(t)
  /\ IF Rejects(loc[t].last_ts, loc[t].ts)
     THEN /\ UNCHANGED LAST_SEEN
          /\ Set(t, "ret", [loc[t] EXCEPT !.accepted = FALSE])
     ELSE /\ LAST_SEEN' = IF LAST_SEEN[KeyOf(t)] = NoTs
                          THEN [LAST_SEEN EXCEPT ![KeyOf(t)] = loc[t].ts]
                          ELSE LAST_SEEN
          /\ Set(t, "append", [loc[t] EXCEPT !.accepted = TRUE])
  /\ UNCHANGED <<EVENTS, eventsFile, galleryFile, now, started, args>>

\* Mutant of should_log_check: the timestamp of a rejected call is recorded too.
should_log_check_recording_all(t) ==
  /\ pc[t] = "sl_check"
  /\ MayRun(t)
  /\ LAST_SEEN' = [LAST_SEEN EXCEPT ![KeyOf(t)] = loc[t].ts]
  /\ IF Rejects(loc[t].last_ts, loc[t].ts)
     THEN Set(t, "ret", [loc[t] EXCEPT !.accepted = FALSE])
     ELSE Set(t, "append", [loc[t] EXCEPT !.accepted = TRUE])
  /\ UNCHANGED <<EVENTS, eventsFile, galleryFile, now, started, args>>

\* _should_log, lines 61-66, and the caller's branch on its result.
should_log_check(t) ==
  /\ pc[t] = "sl_check"
  /\ MayRun(t)
  /\ IF Rejects(loc[t].last_ts, loc[t].ts)
     THEN /\ UNCHANGED LAST_SEEN
          /\ Set(t, "ret", [loc[t] EXCEPT !.accepted = FALSE])
     ELSE /\ LAST_SEEN' = [LAST_SEEN EXCEPT ![KeyOf(t)] = loc[t].ts]
          /\ Set(t, "append", [loc[t] EXCEPT !.accepted = TRUE])
  /\ UNCHANGED <<EVENTS, eventsFile, galleryFile, now, started, args>>

\* Mutant of append: the new event goes to the front of the list.
append_front(t) ==
  /\ pc[t] = "append"
  /\ MayRun(t)
  /\ IF EVENTS = NotAList
     THEN /\ UNCHANGED EVENTS
          /\ Set(t, "done", [loc[t] EXCEPT !.status = "exception"])
     ELSE /\ EVENTS' = <<NewEvent(t)>> \o EVENTS
          /\ Set(t, "dumps", loc[t])
  /\ UNCHANGED <<LAST_SEEN, eventsFile, galleryFile, now, started, args>>

\* EVENTS.append({...}) (lines 159-164, 184-189); an EVENTS that is no list has
\* no append, and the handler ends with that exception.
append(t) ==
  /\ pc[t] = "append"
  /\ MayRun(t)
  /\ IF EVENTS = NotAList
     THEN /\ UNCHANGED EVENTS
          /\ Set(t, "done", [loc[t] EXCEPT !.status = "exception"])
     ELSE /\ EVENTS' = Append(EVENTS, NewEvent(t))
          /\ Set(t, "dumps", loc[t])
  /\ UNCHANGED <<LAST_SEEN, eventsFile, galleryFile, now, started, args>>

\* save_events, line 45: json.dumps(EVENTS, indent=2) snapshots the list.
save_events_dumps(t) ==
  /\ pc[t] = "dumps"
  /\ MayRun(t)
  /\ Set(t, "open", [loc[t] EXCEPT !.text = DumpsEvents(EVENTS)])
  /\ UNCHANGED <<EVENTS, LAST_SEEN, eventsFile, galleryFile, now, started, args>>

\* save_events, line 45: write_text opens the file for writing.
save_events_open(t) ==
  /\ pc[t] = "open"
  /\ MayRun(t)
  /\ eventsFile' = OpenTruncate(eventsFile)
  /\ Set(t, "write", loc[t])
  /\ UNCHANGED <<EVENTS, LAST_SEEN, galleryFile, now, started, args>>

\* save_events, line 45: write_text writes the snapshot and closes.
save_events_write(t) ==
  /\ pc[t] = "write"
  /\ MayRun(t)
  /\ eventsFile' = WriteAt0(eventsFile, loc[t].text)
  /\ Set(t, "ret", loc[t])
  /\ UNCHANGED <<EVENTS, LAST_SEEN, galleryFile, now, started, args>>

\* Mutant of return: /match reports logged whenever the query matched.
return_logged_if_match(t) ==
  /\ pc[t] = "ret"
  /\ MayRun(t)
  /\ Set(t, "done",
         [loc[t] EXCEPT
            !.logged = IF args[t].op = "match" THEN loc[t].is_match ELSE loc[t].accepted,
            !.status = CASE args[t].op = "add_event" ->
                              IF loc[t].accepted THEN "logged" ELSE "skipped_duplicate"
                         [] args[t].op = "clear_events" -> "cleared"
                         [] OTHER -> "ok",
            !.count = PyLen(EVENTS)])
  /\ UNCHANGED <<EVENTS, LAST_SEEN, eventsFile, galleryFile, now, started, args>>

\* The handler's return statement (lines 168-173, 191-193, 200).
return(t) ==
  /\ pc[t] = "ret"
  /\ MayRun(t)
  /\ Set(t, "done",
         [loc[t] EXCEPT
            !.logged = loc[t].accepted,
            !.status = CASE args[t].op = "add_event" ->
                              IF loc[t].accepted THEN "logged" ELSE "skipped_duplicate"
                         [] args[t].op = "clear_events" -> "cleared"
                         [] OTHER -> "ok",
            !.count = PyLen(EVENTS)])
  /\ UNCHANGED <<EVENTS, LAST_SEEN, eventsFile, galleryFile, now, started, args>>

\* The response has been sent; the thread takes the next request.
respond(t) ==
  /\ pc[t] = "done"
  /\ pc' = [pc EXCEPT ![t] = "idle"]
  /\ args' = [args EXCEPT ![t] = NoArgs]
  /\ loc' = [loc EXCEPT ![t] = NoLoc]
  /\ UNCHANGED <<EVENTS, LAST_SEEN, eventsFile, galleryFile, now, started>>

(* ------------------------ POST /events/clear -------------------------- *)
\* Mutant of clear_events: the debounce cache is emptied with the list.
clear_events_resetting_cache(t) ==
  /\ pc[t] = "idle"
  /\ Take
  /\ EVENTS' = <<>>
  /\ LAST_SEEN' = [k \in Keys |-> NoTs]
  /\ args' = [args EXCEPT ![t] = [NoArgs EXCEPT !.op = "clear_events"]]
  /\ Set(t, "dumps", Fresh)
  /\ UNCHANGED <<eventsFile, galleryFile, now>>

\* Mutant of clear_events: the list is emptied but not saved.
clear_events_unsaved(t) ==
  /\ pc[t] = "idle"
  /\ Take
  /\ EVENTS' = <<>>
  /\ args' = [args EXCEPT ![t] = [NoArgs EXCEPT !.op = "clear_events"]]
  /\ Set(t, "ret", Fresh)
  /\ UNCHANGED <<LAST_SEEN, eventsFile, galleryFile, now>>

\* clear_events, line 198: EVENTS = [].
clear_events(t) ==
  /\ pc[t] = "idle"
  /\ Take
  /\ EVENTS' = <<>>
  /\ args' = [args EXCEPT ![t] = [NoArgs EXCEPT !.op = "clear_events"]]
  /\ Set(t, "dumps", Fresh)
  /\ UNCHANGED <<LAST_SEEN, eventsFile, galleryFile, now>>

(* ------------------- GET /events and GET /events/csv ------------------ *)
\* list(reversed(x)): the members of x, last first.
Reversed(x) == [i \in 1..PyLen(x) |-> x[PyLen(x) + 1 - i]]

\* list_events, lines 175-178: the body is the reversed copy of EVENTS.
list_events(t) ==
  /\ pc[t] = "idle"
  /\ Take
  /\ args' = [args EXCEPT ![t] = [NoArgs EXCEPT !.op = "list_events"]]
  /\ Set(t, "done", [Fresh EXCEPT !.status = "ok", !.body = Reversed(EVENTS)])
  /\ UNCHANGED <<EVENTS, LAST_SEEN, eventsFile, galleryFile, now>>

\* DictWriter(fieldnames=[...]), line 205, and writeheader: the columns.
CsvHeader == <<"timestamp", "camera", "person", "score">>

\* writer.writerow({...}), lines 208-213: the values of one event, by column.
CsvRow(e) == <<e.timestamp, e.camera, e.person, e.score>>

\* Mutant of events_csv: the rows are written newest first, as GET /events lists.
events_csv_newest_first(t) ==
  /\ pc[t] = "idle"
  /\ Take
  /\ args' = [args EXCEPT ![t] = [NoArgs EXCEPT !.op = "events_csv"]]
  /\ Set(t, "done",
         [Fresh EXCEPT
            !.status = "ok",
            !.body = <<CsvHeader>> \o
                     [i \in 1..PyLen(EVENTS) |-> CsvRow(Reversed(EVENTS)[i])]])
  /\ UNCHANGED <<EVENTS, LAST_SEEN, eventsFile, galleryFile, now>>

\* events_csv, lines 202-220: the header, then one row per member of EVENTS in
\* list order.
events_csv(t) ==
  /\ pc[t] = "idle"
  /\ Take
  /\ args' = [args EXCEPT ![t] = [NoArgs EXCEPT !.op = "events_csv"]]
  /\ Set(t, "done",
         [Fresh EXCEPT
            !.status = "ok",
            !.body = <<CsvHeader>> \o [i \in 1..PyLen(EVENTS) |-> CsvRow(EVENTS[i])]])
  /\ UNCHANGED <<EVENTS, LAST_SEEN, eventsFile, galleryFile, now>>

\* The wall clock moves on.
Tick ==
  /\ \E u \in Times : u > now /\ now' = u
  /\ UNCHANGED <<EVENTS, LAST_SEEN, eventsFile, galleryFile, pc, args, loc, started>>

(* ------------------------ embeddings and scores ----------------------- *)
\* embed_image_bytes, lines 84-90: the images that raise ValueError.
EmbedFails(img) == img \in {"junk", "blank"}

\* embed_image_bytes, line 96: the embedding of the largest face.
Embedding(img) == IF img = "imgA" THEN <<6, 0>> ELSE <<0, 6>>

\* The element-wise sum of a non-empty sequence of embeddings.
RECURSIVE SumVecs(_)
SumVecs(embs) ==
  IF Len(embs) = 1 THEN embs[1]
  ELSE LET rest == SumVecs(Tail(embs))
       IN [d \in DOMAIN embs[1] |-> embs[1][d] + rest[d]]

\* np.mean(np.stack(embs, axis=0), axis=0), line 133 (exact for the embeddings used).
Mean(embs) == [d \in DOMAIN embs[1] |-> SumVecs(embs)[d] \div Len(embs)]

Dot(a, b) == a[1] * b[1] + a[2] * b[2]

RECURSIVE ISqrtIn(_, _, _)
ISqrtIn(lo, hi, q) ==
  IF lo >= hi THEN lo
  ELSE LET mid == (lo + hi + 1) \div 2
       IN IF mid * mid <= q THEN ISqrtIn(mid, hi, q) ELSE ISqrtIn(lo, mid - 1, q)

\* cosine, lines 77-81, in units of 1e-4: dot(a, b) / (|a| |b|), 0 for a zero vector.
cosine(a, b) ==
  LET d == Dot(a, b)
      n == Dot(a, a) * Dot(b, b)
      dd == d * d
      q == IF n = 0 THEN 0
           ELSE dd * (100000000 \div n) + (dd * (100000000 % n)) \div n
      k == ISqrtIn(0, 10000, q)
  IN IF d >= 0 THEN k ELSE -k

(* ------------------------------ gallery ------------------------------- *)
\* A gallery is the dict of the gallery file: entries [name, vec] in insertion order.
GalNames(gal) == {gal[i].name : i \in 1..Len(gal)}

\* Mutant of GalPut: an existing entry is averaged with the new embedding.
GalPutMerged(gal, name, vec) ==
  IF name \in GalNames(gal)
  THEN [i \in 1..Len(gal) |->
          IF gal[i].name = name
          THEN [name |-> name, vec |-> Mean(<<gal[i].vec, vec>>)]
          ELSE gal[i]]
  ELSE Append(gal, [name |-> name, vec |-> vec])

\* gal[name] = vec (line 134): an existing key keeps its place, a new one goes last.
GalPut(gal, name, vec) ==
  IF name \in GalNames(gal)
  THEN [i \in 1..Len(gal) |-> IF gal[i].name = name THEN [name |-> name, vec |-> vec]
                              ELSE gal[i]]
  ELSE Append(gal, [name |-> name, vec |-> vec])

\* read_gallery, lines 104-107: {} without a file, else json.loads of its text,
\* which raises on a text that does not parse.
ReadGalleryRaises(file) == file.exists /\ ~ParsesAsDict(file.text)

read_gallery(file) == IF file.exists THEN LoadsGallery(file.text) ELSE <<>>

\* scores, line 149: one cosine per gallery entry, in dict order.
Scores(gal, q) == [i \in 1..Len(gal) |-> [name |-> gal[i].name, score |-> cosine(gal[i].vec, q)]]

\* max(scores, key=scores.get), line 150: the first key, in dict order, of maximal score.
BestIndex(sc) ==
  CHOOSE i \in 1..Len(sc) :
    /\ \A j \in 1..Len(sc) : sc[j].score <= sc[i].score
    /\ \A j \in 1..(i - 1) : sc[j].score < sc[i].score

\* Mutant of IsMatch: every scored query counts as a match.
IsMatchAlways(best_score, thr) == TRUE

\* is_match, line 152.
IsMatch(best_score, thr) == best_score >= thr

(* ----------------------------- POST /match ---------------------------- *)
\* Mutant of match: an empty gallery is answered as a query that matched nobody.
match_empty_as_no_match(t) ==
  /\ pc[t] = "idle"
  /\ Take
  /\ LoopFree(t)
  /\ \E img \in QueryImages, thr \in Thresholds, c \in MatchCameras :
       /\ args' = [args EXCEPT ![t] =
            [NoArgs EXCEPT !.op = "match", !.image = img, !.thr = thr, !.camera = c]]
       /\ IF ReadGalleryRaises(galleryFile)
          THEN Set(t, "done", [Fresh EXCEPT !.status = "exception"])
          ELSE IF read_gallery(galleryFile) = <<>>
          THEN Set(t, "ret", Fresh)
          ELSE Set(t, "m_await", [Fresh EXCEPT !.gal = read_gallery(galleryFile)])
  /\ UNCHANGED <<EVENTS, LAST_SEEN, eventsFile, galleryFile, now>>

\* match, lines 140-143: read the gallery, refuse an empty one, await the upload.
match(t) ==
  /\ pc[t] = "idle"
  /\ Take
  /\ LoopFree(t)
  /\ \E img \in QueryImages, thr \in Thresholds, c \in MatchCameras :
       /\ args' = [args EXCEPT ![t] =
            [NoArgs EXCEPT !.op = "match", !.image = img, !.thr = thr, !.camera = c]]
       /\ IF ReadGalleryRaises(galleryFile)
          THEN Set(t, "done", [Fresh EXCEPT !.status = "exception"])
          ELSE IF read_gallery(galleryFile) = <<>>
          THEN Set(t, "done", [Fresh EXCEPT !.status = "gallery empty, enroll first"])
          ELSE Set(t, "m_await", [Fresh EXCEPT !.gal = read_gallery(galleryFile)])
  /\ UNCHANGED <<EVENTS, LAST_SEEN, eventsFile, galleryFile, now>>

\* match, lines 144-157: embed the query, score it against the gallery read
\* before the await, pick the best; a match goes on to _should_log.
match_score(t) ==
  /\ pc[t] = "m_await"
  /\ LoopFree(t)
  /\ IF EmbedFails(args[t].image)
     THEN Set(t, "done", [loc[t] EXCEPT !.status = "embed error"])
     ELSE LET sc == Scores(loc[t].gal, Embedding(args[t].image))
              b == BestIndex(sc)
              l == [loc[t] EXCEPT
                      !.scores = [i \in 1..Len(sc) |->
                                    [name |-> sc[i].name, score |-> Round3(sc[i].score)]],
                      !.best_name = sc[b].name,
                      !.best_score = sc[b].score,
                      !.is_match = IsMatch(sc[b].score, args[t].thr)]
          IN IF l.is_match
             THEN Set(t, "sl_get", [l EXCEPT !.ts = now])
             ELSE Set(t, "ret", l)
  /\ UNCHANGED <<EVENTS, LAST_SEEN, eventsFile, galleryFile, now, started, args>>

(* ---------------------------- folder worker --------------------------- *)
\* float(resp["best"]["score"]) (folder_worker.py line 80): the rounded score
\* of the response, in units of 1e-4.
RespScore(t) == Round3(loc[t].best_score) * 10

\* The frame a POST /events of the worker belongs to.
FrameOf(t) ==
  [posted |-> TRUE, EVENTS |-> loc[t].pre.EVENTS, is_match |-> loc[t].is_match,
   logged |-> loc[t].logged, key |-> KeyOf(t),
   ts |-> loc[t].ts, last |-> loc[t].pre.LAST_SEEN[KeyOf(t)]]

\* Mutant of worker_post_event: the best name is posted for every frame.
worker_post_event_named(t) ==
  /\ pc[t] = "done"
  /\ args[t].op = "match"
  /\ loc[t].status = "ok"
  /\ args' = [args EXCEPT ![t] =
       [NoArgs EXCEPT !.op = "add_event",
                      !.person = loc[t].best_name,
                      !.camera = args[t].camera,
                      !.score = RespScore(t)]]
  /\ Set(t, "sl_get", [Fresh EXCEPT !.ts = now, !.frame = FrameOf(t)])
  /\ UNCHANGED <<EVENTS, LAST_SEEN, eventsFile, galleryFile, now, started>>

\* folder_worker.py lines 78-93 and 23-27, with add_event line 182: a /match
\* response with "best" is followed by POST /events for the best name on a
\* match, for "unknown" otherwise, with the response's score, the same camera
\* and no timestamp, so the server takes the time of arrival.
worker_post_event(t) ==
  /\ pc[t] = "done"
  /\ args[t].op = "match"
  /\ loc[t].status = "ok"
  /\ args' = [args EXCEPT ![t] =
       [NoArgs EXCEPT !.op = "add_event",
                      !.person = IF loc[t].is_match THEN loc[t].best_name ELSE "unknown",
                      !.camera = args[t].camera,
                      !.score = RespScore(t)]]
  /\ Set(t, "sl_get", [Fresh EXCEPT !.ts = now, !.frame = FrameOf(t)])
  /\ UNCHANGED <<EVENTS, LAST_SEEN, eventsFile, galleryFile, now, started>>

(* ---------------------------- POST /enroll ---------------------------- *)
RECURSIVE SeqsUpTo(_, _)
SeqsUpTo(S, n) ==
  IF n = 0 THEN {<<>>}
  ELSE LET shorter == SeqsUpTo(S, n - 1)
       IN shorter \cup {Append(q, x) : q \in shorter, x \in S}

\* The uploads of one /enroll: File(...) requires at least one.
Uploads == SeqsUpTo(Images, MaxFiles) \ {<<>>}

\* enroll, lines 121-127: refuse an empty name, read the gallery, start the loop.
enroll(t) ==
  /\ pc[t] = "idle"
  /\ Take
  /\ LoopFree(t)
  /\ \E name \in Names \cup {""}, files \in Uploads :
       /\ args' = [args EXCEPT ![t] =
            [NoArgs EXCEPT !.op = "enroll", !.name = name, !.files = files]]
       /\ IF name = ""
          THEN Set(t, "done", [Fresh EXCEPT !.status = "missing"])
          ELSE IF ReadGalleryRaises(galleryFile)
          THEN Set(t, "done", [Fresh EXCEPT !.status = "exception"])
          ELSE Set(t, "e_await", [Fresh EXCEPT !.gal = read_gallery(galleryFile), !.i = 1])
  /\ UNCHANGED <<EVENTS, LAST_SEEN, eventsFile, galleryFile, now>>

\* Mutant of enroll_embed: the gallery file is opened for writing before the
\* uploads are embedded, so an embedding error leaves it truncated.
enroll_embed_open_first(t) ==
  /\ pc[t] = "e_await"
  /\ LoopFree(t)
  /\ LET img == args[t].files[loc[t].i]
         embs == Append(loc[t].embs, Embedding(img))
     IN IF EmbedFails(img)
        THEN /\ Set(t, "done", [loc[t] EXCEPT !.status = "exception"])
             /\ galleryFile' = OpenTruncate(galleryFile)
        ELSE /\ UNCHANGED galleryFile
             /\ IF loc[t].i < Len(args[t].files)
                THEN Set(t, "e_await", [loc[t] EXCEPT !.embs = embs, !.i = loc[t].i + 1])
                ELSE LET gal == GalPut(loc[t].gal, args[t].name, Mean(embs))
                     IN Set(t, "g_open", [loc[t] EXCEPT !.embs = embs, !.gal = gal,
                                                        !.text = DumpsGallery(gal)])
  /\ UNCHANGED <<EVENTS, LAST_SEEN, eventsFile, now, started, args>>

\* enroll, lines 128-134 and write_gallery's json.dumps: after the await of
\* upload i, embed it (an embedding error leaves the handler as an exception);
\* after the last upload, average, put the entry and serialise the gallery.
enroll_embed(t) ==
  /\ pc[t] = "e_await"
  /\ LoopFree(t)
  /\ LET img == args[t].files[loc[t].i]
         embs == Append(loc[t].embs, Embedding(img))
     IN IF EmbedFails(img)
        THEN Set(t, "done", [loc[t] EXCEPT !.status = "exception"])
        ELSE IF loc[t].i < Len(args[t].files)
        THEN Set(t, "e_await", [loc[t] EXCEPT !.embs = embs, !.i = loc[t].i + 1])
        ELSE IF embs = <<>>
        THEN Set(t, "done", [loc[t] EXCEPT !.status = "no usable images"])
        ELSE LET gal == GalPut(loc[t].gal, args[t].name, Mean(embs))
             IN Set(t, "g_open", [loc[t] EXCEPT !.embs = embs, !.gal = gal,
                                                !.text = DumpsGallery(gal)])
  /\ UNCHANGED <<EVENTS, LAST_SEEN, eventsFile, galleryFile, now, started, args>>

\* write_gallery, line 110: write_text opens the file for writing.
write_gallery_open(t) ==
  /\ pc[t] = "g_open"
  /\ LoopFree(t)
  /\ galleryFile' = OpenTruncate(galleryFile)
  /\ Set(t, "g_write", loc[t])
  /\ UNCHANGED <<EVENTS, LAST_SEEN, eventsFile, now, started, args>>

\* write_gallery, line 110, and the return of line 136: write_text writes the
\* text and closes; the response reports the name and the number of embeddings.
write_gallery_write(t) ==
  /\ pc[t] = "g_write"
  /\ LoopFree(t)
  /\ galleryFile' = WriteAt0(galleryFile, loc[t].text)
  /\ Set(t, "done", [loc[t] EXCEPT !.status = "enrolled", !.count = Len(loc[t].embs)])
  /\ UNCHANGED <<EVENTS, LAST_SEEN, eventsFile, now, started, args>>

(* ------------------------- crash and restart -------------------------- *)
\* load_events, lines 34-42: what json.loads makes of the file's text (the list
\* of a JSON array, a dict of a JSON object), or [] without a file or on any error.
load_events(file) ==
  IF file.exists /\ ParsesAsList(file.text) THEN LoadsEvents(file.text)
  ELSE IF file.exists /\ ParsesAsDict(file.text) THEN NotAList
  ELSE <<>>

ProperPrefixes(text) == {SubSeq(text, 1, n) : n \in 0..(Len(text) - 1)}

\* What a write_text cut short leaves of a file opened by thread set W: the
\* file as it is, with some proper prefix of the text written.
CutShort(file, W) ==
  IF W = {} THEN {file}
  ELSE {WriteAt0(file, p) : p \in UNION {ProperPrefixes(loc[t].text) : t \in W}}

\* The process dies while a request is in progress and the service is started
\* again: module level of app.py, lines 22, 28, 69.
crash ==
  /\ \E t \in Threads : pc[t] \notin {"idle", "done"}
  /\ galleryFile' \in CutShort(galleryFile, {t \in Threads : pc[t] = "g_write"})
  /\ eventsFile' \in CutShort(eventsFile, {t \in Threads : pc[t] = "write"})
  /\ EVENTS' = load_events(eventsFile')
  /\ LAST_SEEN' = [k \in Keys |-> NoTs]
  /\ pc' = [t \in Threads |-> "idle"]
  /\ args' = [t \in Threads |-> NoArgs]
  /\ loc' = [t \in Threads |-> NoLoc]
  /\ UNCHANGED <<now, started>>

\* Mutant of restart: the debounce cache is rebuilt from the reloaded log.
restart_rebuilding_cache ==
  /\ \A t \in Threads : pc[t] = "idle"
  /\ EVENTS' = load_events(eventsFile)
  /\ LAST_SEEN' =
       [k \in Keys |->
          LET log == load_events(eventsFile)
              at == {log[i].timestamp :
                       i \in {j \in 1..PyLen(log) :
                                <<log[j].person, log[j].camera>> = k}}
          IN IF at = {} THEN NoTs ELSE CHOOSE m \in at : \A x \in at : x <= m]
  /\ UNCHANGED <<eventsFile, galleryFile, now, started, pc, args, loc>>

\* The service is stopped while no request is in progress and started again:
\* module level of app.py, lines 22, 28, 69. The files stay.
restart ==
  /\ \A t \in Threads : pc[t] = "idle"
  /\ EVENTS' = load_events(eventsFile)
  /\ LAST_SEEN' = [k \in Keys |-> NoTs]
  /\ UNCHANGED <<eventsFile, galleryFile, now, started, pc, args, loc>>

\* An event that an earlier run of the service logged.
OldEvent == [person |-> "alice", score |-> 813, camera |-> "cam1", timestamp |-> 0]

\* The events file an earlier run left: none, a saved list, or what a save cut
\* short at a crash left of one.
OwnEventsFiles ==
  {NoFile,
   [exists |-> TRUE, text |-> DumpsEvents(<<OldEvent>>)],
   [exists |-> TRUE, text |-> <<Tok("["), ObjTok(OldEvent)>>]}

\* An events file that something else damaged: bytes that cannot be read as
\* text, or the JSON document {}.
DamagedEventsFiles ==
  {[exists |-> TRUE, text |-> <<Tok("\\xff")>>],
   [exists |-> TRUE, text |-> <<Tok("{"), Tok("}")>>]}

\* The service starts on an events file in Files: app.py lines 22, 28, 69.
StartOn(Files) ==
  /\ eventsFile \in Files
  /\ EVENTS = load_events(eventsFile)
  /\ LAST_SEEN = [k \in Keys |-> NoTs]
  /\ galleryFile = NoFile
  /\ now = 0
  /\ started = 0
  /\ pc = [t \in Threads |-> "idle"]
  /\ args = [t \in Threads |-> NoArgs]
  /\ loc = [t \in Threads |-> NoLoc]

(* --------------------------- specifications --------------------------- *)
\* One request of the event log, up to its response: POST /events,
\* POST /events/clear, POST /match.
EventRequest(t) ==
  \/ add_event(t)
  \/ clear_events(t)
  \/ match(t)
  \/ match_score(t)
  \/ should_log_get(t)
  \/ should_log_check(t)
  \/ append(t)
  \/ save_events_dumps(t)
  \/ save_events_open(t)
  \/ save_events_write(t)
  \/ return(t)

EventStep(t) == EventRequest(t) \/ respond(t)

\* The handler of the gallery: POST /enroll.
EnrollRequest(t) ==
  \/ enroll(t)
  \/ enroll_embed(t)
  \/ write_gallery_open(t)
  \/ write_gallery_write(t)

EnrollStep(t) == EnrollRequest(t) \/ respond(t)

\* The event log, requests handled one at a time.
Next == EventStep("t1") \/ Tick

Spec == Init /\ [][Next]_vars

\* The gallery, requests handled one at a time.
EnrollNext == EnrollStep("t1")

EnrollSpec == Init /\ [][EnrollNext]_vars

\* The event log, one request per thread, the requests handled concurrently.
ConcNext == \E t \in Threads : EventRequest(t)

ConcSpec == Init /\ [][ConcNext]_vars

\* The gallery, one request per thread, the requests handled concurrently.
ConcEnrollNext == \E t \in Threads : EnrollRequest(t)

ConcEnrollSpec == Init /\ [][ConcEnrollNext]_vars

\* One request of the event store, up to its response: POST /events,
\* POST /events/clear, GET /events, GET /events/csv.
StoreRequest(t) ==
  \/ add_event(t)
  \/ clear_events(t)
  \/ list_events(t)
  \/ events_csv(t)
  \/ should_log_get(t)
  \/ should_log_check(t)
  \/ append(t)
  \/ save_events_dumps(t)
  \/ save_events_open(t)
  \/ save_events_write(t)
  \/ return(t)

\* The event store across restarts, requests handled one at a time.
StoreNext == StoreRequest("t1") \/ respond("t1") \/ restart

StoreInit == StartOn(OwnEventsFiles)

StoreSpec == StoreInit /\ [][StoreNext]_vars

\* The same, started on any events file, damaged ones included.
StartupInit == StartOn(OwnEventsFiles \cup DamagedEventsFiles)

StartupSpec == StartupInit /\ [][StoreNext]_vars

\* The folder worker's loop over its frames (folder_worker.py lines 72-101):
\* /match, then POST /events when the response has "best"; respond ends a
\* frame, also one whose POST /events failed on the way (lines 28-30).
WorkerStep(t) ==
  \/ match(t)
  \/ match_score(t)
  \/ worker_post_event(t)
  \/ should_log_get(t)
  \/ should_log_check(t)
  \/ append(t)
  \/ save_events_dumps(t)
  \/ save_events_open(t)
  \/ save_events_write(t)
  \/ return(t)
  \/ respond(t)

\* The event log with the folder worker as its only client.
WorkerNext == WorkerStep("t1") \/ Tick

WorkerSpec == Init /\ [][WorkerNext]_vars

\* The gallery, requests handled one at a time, with crashes.
CrashNext == EnrollStep("t1") \/ crash

CrashSpec == Init /\ [][CrashNext]_vars

(* ------------------------------- claims ------------------------------- *)
\* The debounce rule as the specification words it.
AcceptRule(last, ts) == last = NoTs \/ ts - last >= 30000

\* Thread t's request reached a debounce decision and has its response.
Decided(t) ==
  /\ pc[t] = "done"
  /\ \/ args[t].op = "add_event"
     \/ args[t].op = "match" /\ loc[t].status = "ok" /\ loc[t].is_match

\* C1: a debounce decision for key (person, camera) at timestamp t accepts if
\* and only if the key had no last-accepted time or t is at least 30 seconds
\* after it; after an accept at 0, 29.999 s is skipped and 30.001 s accepted.
C1_DebounceRule ==
  \A t \in Threads :
    Decided(t) =>
      LET last == loc[t].pre.LAST_SEEN[KeyOf(t)]
      IN /\ loc[t].accepted <=> AcceptRule(last, loc[t].ts)
         /\ args[t].op = "add_event" =>
              (loc[t].status = "logged") = loc[t].accepted
         /\ (last = 0 /\ loc[t].ts = 29999) => ~loc[t].accepted
         /\ (last = 0 /\ loc[t].ts = 30001) => loc[t].accepted

C1_Witness ==
  \E t \in Threads :
    /\ Decided(t)
    /\ loc[t].pre.LAST_SEEN[KeyOf(t)] = 0
    /\ loc[t].ts = 29999
    /\ loc[t].status = "skipped_duplicate"

\* Two threads hold requests for the same key whose timestamps lie within one
\* debounce window.
SameWindow(t, u) ==
  /\ t # u
  /\ args[t].op \in {"add_event", "match"}
  /\ args[u].op \in {"add_event", "match"}
  /\ KeyOf(t) = KeyOf(u)
  /\ loc[t].ts - loc[u].ts < 30000
  /\ loc[u].ts - loc[t].ts < 30000

\* C2: two concurrent debounce calls for the same (person, camera) within one
\* 30-second window are never both accepted.
C2_AtomicDebounce ==
  \A t, u \in Threads :
    SameWindow(t, u) => ~(loc[t].accepted /\ loc[u].accepted)

\* C3: a /match whose best score is below the threshold reports logged = false
\* and leaves the event list, the events file and the debounce cache as they were.
C3_BelowThresholdNoEvent ==
  \A t \in Threads :
    (/\ pc[t] = "done"
     /\ args[t].op = "match"
     /\ loc[t].status = "ok"
     /\ loc[t].best_score < args[t].thr)
    => /\ ~loc[t].logged
       /\ EVENTS = loc[t].pre.EVENTS
       /\ eventsFile = loc[t].pre.eventsFile
       /\ LAST_SEEN = loc[t].pre.LAST_SEEN

C3_Witness ==
  \E t \in Threads :
    /\ pc[t] = "done"
    /\ args[t].op = "match"
    /\ loc[t].status = "ok"
    /\ loc[t].best_score < args[t].thr
    /\ LAST_SEEN[<<loc[t].best_name, args[t].camera>>] = NoTs

\* The entry of name in a gallery file, as a set (empty when there is none).
StoredVecs(file, name) ==
  IF file.exists /\ ParsesAsDict(file.text)
  THEN LET gal == LoadsGallery(file.text)
       IN {gal[i].vec : i \in {j \in 1..Len(gal) : gal[j].name = name}}
  ELSE {}

\* C4: once two enrollments for different names have both succeeded, the
\* gallery file holds both names, each with the mean its enrollment computed.
C4_NoLostEnrollment ==
  \A t, u \in Threads :
    (/\ t # u
     /\ pc[t] = "done" /\ pc[u] = "done"
     /\ loc[t].status = "enrolled" /\ loc[u].status = "enrolled"
     /\ args[t].name # args[u].name)
    => /\ StoredVecs(galleryFile, args[t].name) = {Mean(loc[t].embs)}
       /\ StoredVecs(galleryFile, args[u].name) = {Mean(loc[u].embs)}

\* C5: for a /match at or above the threshold, logged is true exactly when the
\* debounce rule accepts (best name, camera) at the match timestamp; then that
\* one event is appended and the file holds the list; otherwise logged is false
\* and list and file are unchanged.
C5_MatchLogs ==
  \A t \in Threads :
    (/\ pc[t] = "done"
     /\ args[t].op = "match"
     /\ loc[t].status = "ok"
     /\ loc[t].best_score >= args[t].thr)
    => LET key == <<loc[t].best_name, args[t].camera>>
       IN /\ loc[t].logged <=> AcceptRule(loc[t].pre.LAST_SEEN[key], loc[t].ts)
          /\ loc[t].logged =>
               /\ Len(EVENTS) = Len(loc[t].pre.EVENTS) + 1
               /\ SubSeq(EVENTS, 1, Len(EVENTS) - 1) = loc[t].pre.EVENTS
               /\ EVENTS[Len(EVENTS)].person = loc[t].best_name
               /\ EVENTS[Len(EVENTS)].camera = args[t].camera
               /\ EVENTS[Len(EVENTS)].timestamp = loc[t].ts
               /\ eventsFile.exists
               /\ ParsesAsList(eventsFile.text)
               /\ LoadsEvents(eventsFile.text) = EVENTS
          /\ ~loc[t].logged =>
               /\ EVENTS = loc[t].pre.EVENTS
               /\ eventsFile = loc[t].pre.eventsFile

C5_Witness ==
  \E t \in Threads :
    /\ pc[t] = "done"
    /\ args[t].op = "match"
    /\ loc[t].status = "ok"
    /\ loc[t].best_score >= args[t].thr
    /\ ~loc[t].logged
    /\ Len(EVENTS) = 1

\* The embeddings of the uploads that can be embedded, in upload order.
RECURSIVE Usable(_)
Usable(files) ==
  IF files = <<>> THEN <<>>
  ELSE IF EmbedFails(files[1]) THEN Usable(Tail(files))
  ELSE <<Embedding(files[1])>> \o Usable(Tail(files))

\* C6: an enrollment with a name, at least one usable and at least one
\* unusable image succeeds, stores the mean of the usable embeddings and
\* reports their count; "no usable images" is answered only when none is usable.
C6_PartialSuccess ==
  \A t \in Threads :
    (/\ pc[t] = "done"
     /\ args[t].op = "enroll"
     /\ args[t].name # "")
    => /\ loc[t].status = "no usable images" => Usable(args[t].files) = <<>>
       /\ (/\ Usable(args[t].files) # <<>>
           /\ Len(Usable(args[t].files)) < Len(args[t].files))
          => /\ loc[t].status = "enrolled"
             /\ loc[t].count = Len(Usable(args[t].files))
             /\ StoredVecs(galleryFile, args[t].name) = {Mean(Usable(args[t].files))}

\* Every thread has returned from its handler.
Quiescent == \A t \in Threads : pc[t] \in {"idle", "done"}

\* C7: once all concurrent accepted appends have returned, the events file is
\* the serialisation of the in-memory list, which holds every accepted event once.
C7_SerialisedAppends ==
  (/\ Quiescent
   /\ \A t \in Threads : args[t].op \in {"add_event", "match"} /\ loc[t].accepted)
  => /\ eventsFile = [exists |-> TRUE, text |-> DumpsEvents(EVENTS)]
     /\ Len(EVENTS) = Cardinality(Threads)

\* C8: a crash during an enrollment leaves the gallery file either as it was
\* before the enrollment or as the enrollment writes it.
C8_AllOrNothing ==
  [][\A t \in Threads :
       (/\ args[t].op = "enroll"
        /\ pc[t] \notin {"idle", "done"}
        /\ pc'[t] = "idle")
       => \/ galleryFile' = loc[t].pre.galleryFile
          \/ /\ pc[t] \in {"g_open", "g_write"}
             /\ galleryFile' = [exists |-> TRUE, text |-> loc[t].text]]_vars

\* C9: an enrollment that fails (empty name, no usable image, or an exception
\* of the extraction) leaves the gallery file exactly as it was before the call.
C9_FailedEnrollKeepsGallery ==
  \A t \in Threads :
    (/\ pc[t] = "done"
     /\ args[t].op = "enroll"
     /\ loc[t].status \in {"missing", "no usable images", "exception"})
    => galleryFile = loc[t].pre.galleryFile

C9_Witness ==
  \E t \in Threads :
    /\ pc[t] = "done"
    /\ args[t].op = "enroll"
    /\ loc[t].status = "exception"
    /\ loc[t].i = 2
    /\ StoredVecs(galleryFile, args[t].name) # {}

\* C10: with requests handled one at a time, whenever none is in progress the
\* events file holds exactly the in-memory list in insertion order (no file
\* exists only before the first accept or clear), and after /events/clear both
\* are empty.
C10_FileHoldsList ==
  Quiescent =>
    /\ \/ eventsFile = [exists |-> TRUE, text |-> DumpsEvents(EVENTS)]
       \/ /\ ~eventsFile.exists
          /\ EVENTS = <<>>
          /\ \A k \in Keys : LAST_SEEN[k] = NoTs
    /\ \A t \in Threads :
         (pc[t] = "done" /\ args[t].op = "clear_events")
         => /\ EVENTS = <<>>
            /\ eventsFile = [exists |-> TRUE, text |-> <<Tok("["), Tok("]")>>]

C10_Witness ==
  \E t \in Threads :
    /\ pc[t] = "done"
    /\ args[t].op = "clear_events"
    /\ loc[t].pre.EVENTS # <<>>
    /\ EVENTS = <<>>

\* The gallery a request found when it started has no entry: there is no gallery
\* file, or the file holds an empty object.
FoundNoEntries(t) ==
  \/ ~loc[t].pre.galleryFile.exists
  \/ loc[t].pre.galleryFile.text = <<Tok("{"), Tok("}")>>

\* C11: a /match that finds zero gallery entries (no gallery file, or an empty
\* one) answers with the empty-gallery error and no score map, appends no event
\* and leaves the debounce cache unchanged.
C11_EmptyGalleryRefused ==
  \A t \in Threads :
    (pc[t] = "done" /\ args[t].op = "match" /\ FoundNoEntries(t))
    => /\ loc[t].status = "gallery empty, enroll first"
       /\ loc[t].scores = <<>>
       /\ ~loc[t].logged
       /\ EVENTS = loc[t].pre.EVENTS
       /\ eventsFile = loc[t].pre.eventsFile
       /\ LAST_SEEN = loc[t].pre.LAST_SEEN

C11_Witness ==
  \E t \in Threads :
    /\ pc[t] = "done"
    /\ args[t].op = "match"
    /\ loc[t].pre.galleryFile.exists
    /\ loc[t].pre.galleryFile.text = <<Tok("{"), Tok("}")>>
    /\ loc[t].status = "gallery empty, enroll first"
    /\ loc[t].pre.EVENTS # <<>>

\* The galleries that hold the entries of gal in some other enrollment order.
Reorderings(gal) ==
  LET n == Len(gal)
      Perms == {f \in [1..n -> 1..n] : \A i, j \in 1..n : f[i] = f[j] => i = j}
  IN {[i \in 1..n |-> gal[f[i]]] : f \in Perms}

\* The best name /match computes for query image img against gallery gal.
BestName(gal, img) ==
  LET sc == Scores(gal, Embedding(img)) IN sc[BestIndex(sc)].name

\* C12: the best candidate of a match depends on the set of (name, score) pairs
\* only: with the same entries enrolled in any other order, also when several
\* names tie for the maximum score, the same best name is returned.
C12_TieBreakIgnoresOrder ==
  \A t \in Threads :
    (pc[t] = "done" /\ args[t].op = "match" /\ loc[t].status = "ok")
    => \A g \in Reorderings(loc[t].gal) :
         BestName(g, args[t].image) = loc[t].best_name

\* C13: POST /events answers 'logged' exactly when the debounce rule accepts
\* (person, camera) at the event's timestamp (the supplied one, or the current
\* time when omitted); on 'logged' the list grows by that one event at its end,
\* on 'skipped_duplicate' list and file are unchanged; the returned count is
\* the length of the list after the call.
C13_AddEventContract ==
  \A t \in Threads :
    (pc[t] = "done" /\ args[t].op = "add_event")
    => LET ts == IF args[t].timestamp = NoTs THEN loc[t].ts ELSE args[t].timestamp
           last == loc[t].pre.LAST_SEEN[<<args[t].person, args[t].camera>>]
           ev == [person |-> args[t].person, score |-> Round3(args[t].score),
                  camera |-> args[t].camera, timestamp |-> ts]
       IN /\ loc[t].status \in {"logged", "skipped_duplicate"}
          /\ loc[t].status = "logged" <=> AcceptRule(last, ts)
          /\ loc[t].status = "logged" => EVENTS = Append(loc[t].pre.EVENTS, ev)
          /\ loc[t].status = "skipped_duplicate" =>
               /\ EVENTS = loc[t].pre.EVENTS
               /\ eventsFile = loc[t].pre.eventsFile
          /\ loc[t].count = Len(EVENTS)

C13_Witness ==
  \E t \in Threads :
    /\ pc[t] = "done"
    /\ args[t].op = "add_event"
    /\ args[t].timestamp = NoTs
    /\ loc[t].status = "logged"
    /\ loc[t].pre.EVENTS # <<>>
    /\ loc[t].pre.LAST_SEEN[<<args[t].person, args[t].camera>>] # NoTs
    /\ loc[t].count = 2

\* The embeddings of a sequence of uploads, in upload order.
EmbeddingsOf(files) == [i \in 1..Len(files) |-> Embedding(files[i])]

\* C14: a successful enrollment replaces: the stored embedding of its name is
\* the element-wise mean of the embeddings of that call's images only, whatever
\* was stored under the name before; every other name's entry is unchanged;
\* enrolling the same single image again stores the identical embedding.
C14_EnrollReplaces ==
  \A t \in Threads :
    (pc[t] = "done" /\ args[t].op = "enroll" /\ loc[t].status = "enrolled")
    => /\ StoredVecs(galleryFile, args[t].name) = {Mean(EmbeddingsOf(args[t].files))}
       /\ \A n \in Names \ {args[t].name} :
            StoredVecs(galleryFile, n) = StoredVecs(loc[t].pre.galleryFile, n)
       /\ (/\ Len(args[t].files) = 1
           /\ StoredVecs(loc[t].pre.galleryFile, args[t].name)
                = {Embedding(args[t].files[1])})
          => StoredVecs(galleryFile, args[t].name)
               = StoredVecs(loc[t].pre.galleryFile, args[t].name)

C14_Witness ==
  \E t \in Threads :
    /\ pc[t] = "done"
    /\ args[t].op = "enroll"
    /\ loc[t].status = "enrolled"
    /\ args[t].name = "alice"
    /\ args[t].files = <<"imgB">>
    /\ StoredVecs(loc[t].pre.galleryFile, "alice") = {<<6, 0>>}
    /\ StoredVecs(loc[t].pre.galleryFile, "bob") = {<<3, 3>>}
    /\ StoredVecs(galleryFile, "alice") = {<<0, 6>>}

\* The list holds an event of thread t's key less than 30 seconds older than
\* the timestamp of t's request.
HoldsRecent(list, t) ==
  \E i \in 1..Len(list) :
    /\ <<list[i].person, list[i].camera>> = KeyOf(t)
    /\ list[i].timestamp <= loc[t].ts
    /\ loc[t].ts - list[i].timestamp < 30000

\* C15: a restart loses the debounce cache and keeps the event log: the restart
\* leaves the list as persisted and the cache empty, and the first event
\* submitted afterwards for a (person, camera) is accepted and appended, even
\* when the reloaded log holds an event for that key less than 30 seconds older.
C15_RestartForgetsDebounce ==
  /\ [][(\A t \in Threads : pc[t] = "idle" /\ pc'[t] = "idle")
        => /\ EVENTS' = EVENTS
           /\ \A k \in Keys : LAST_SEEN'[k] = NoTs]_vars
  /\ [](\A t \in Threads :
         (/\ pc[t] = "done"
          /\ args[t].op = "add_event"
          /\ loc[t].pre.LAST_SEEN[KeyOf(t)] = NoTs)
         => /\ loc[t].status = "logged"
            /\ EVENTS = Append(loc[t].pre.EVENTS, NewEvent(t)))

C15_Witness ==
  \E t \in Threads :
    /\ pc[t] = "done"
    /\ args[t].op = "add_event"
    /\ args[t].camera = "cam2"
    /\ loc[t].pre.LAST_SEEN[KeyOf(t)] = NoTs
    /\ HoldsRecent(loc[t].pre.EVENTS, t)
    /\ loc[t].status = "logged"

\* The requests that work on the event list.
StoreOps == {"add_event", "clear_events", "list_events", "events_csv"}

\* C16: the service starts whatever the events file holds: on a missing,
\* unreadable or unparseable file with an empty event list, on a file that
\* parses with the list as persisted; and every later append, list, clear and
\* export works on that list.
C16_StartupTolerant ==
  /\ started = 0 =>
       EVENTS = IF eventsFile.exists /\ ParsesAsList(eventsFile.text)
                THEN LoadsEvents(eventsFile.text)
                ELSE <<>>
  /\ \A t \in Threads :
       (pc[t] = "done" /\ args[t].op \in StoreOps)
       => loc[t].status \in {"logged", "skipped_duplicate", "cleared", "ok"}

\* C17: listing and exporting are read-only views: GET /events returns the
\* events in exact reverse of insertion order, GET /events/csv the header
\* timestamp,camera,person,score and then one row per event in insertion
\* order; neither changes the event list, its order or the events file.
C17_ReadOnlyViews ==
  \A t \in Threads :
    (pc[t] = "done" /\ args[t].op \in {"list_events", "events_csv"})
    => LET n == Len(EVENTS)
       IN /\ EVENTS = loc[t].pre.EVENTS
          /\ eventsFile = loc[t].pre.eventsFile
          /\ LAST_SEEN = loc[t].pre.LAST_SEEN
          /\ args[t].op = "list_events" =>
               /\ Len(loc[t].body) = n
               /\ \A i \in 1..n : loc[t].body[i] = EVENTS[n + 1 - i]
          /\ args[t].op = "events_csv" =>
               /\ Len(loc[t].body) = n + 1
               /\ loc[t].body[1] = <<"timestamp", "camera", "person", "score">>
               /\ \A i \in 1..n :
                    loc[t].body[i + 1] = <<EVENTS[i].timestamp, EVENTS[i].camera,
                                           EVENTS[i].person, EVENTS[i].score>>

C17_Witness ==
  \E t \in Threads :
    /\ pc[t] = "done"
    /\ args[t].op = "events_csv"
    /\ Len(EVENTS) = 3
    /\ EVENTS[1].timestamp < EVENTS[2].timestamp
    /\ EVENTS[3].timestamp < EVENTS[2].timestamp
    /\ loc[t].body[2][1] = EVENTS[1].timestamp

\* The best score as the response reports it (round(best_score, 3)), in units
\* of 1e-4 like the threshold.
ReportedBest(t) == Round3(loc[t].best_score) * 10

\* C18: in every successful /match response the best candidate is a name whose
\* score is the maximum over all gallery entries, and the reported match flag
\* is true if and only if the reported best score is at least the threshold
\* thr of that call.
C18_BestAndFlag ==
  \A t \in Threads :
    (pc[t] = "done" /\ args[t].op = "match" /\ loc[t].status = "ok")
    => LET sc == Scores(loc[t].gal, Embedding(args[t].image))
       IN /\ \E i \in 1..Len(sc) :
               /\ sc[i].name = loc[t].best_name
               /\ sc[i].score = loc[t].best_score
               /\ \A j \in 1..Len(sc) : sc[j].score <= sc[i].score
          /\ loc[t].is_match <=> ReportedBest(t) >= args[t].thr

\* Thread t takes the step in which its debounce call is decided, and the call
\* is accepted.
AcceptStep(t) == pc[t] = "sl_check" /\ pc'[t] = "append"

\* C19: the debounce cache changes only through accepted calls and only
\* monotonically: a rejected call leaves every entry unchanged; an accepted one
\* changes only the entry of its own (person, camera), to the call's
\* timestamp, at least 30 seconds newer than the value replaced; no operation,
\* /events/clear included, removes a key or moves its timestamp backwards.
C19_CacheMonotone ==
  [][/\ \A k \in Keys :
          LAST_SEEN'[k] # LAST_SEEN[k]
          => \E t \in Threads :
               /\ AcceptStep(t)
               /\ KeyOf(t) = k
               /\ LAST_SEEN'[k] = loc[t].ts
               /\ LAST_SEEN[k] # NoTs => LAST_SEEN'[k] - LAST_SEEN[k] >= 30000
     /\ \A k \in Keys :
          LAST_SEEN[k] # NoTs
          => LAST_SEEN'[k] # NoTs /\ LAST_SEEN'[k] >= LAST_SEEN[k]]_vars

C19_Witness ==
  \E t \in Threads :
    /\ pc[t] = "done"
    /\ args[t].op = "clear_events"
    /\ Len(loc[t].pre.EVENTS) = 2
    /\ loc[t].pre.EVENTS[1].camera = loc[t].pre.EVENTS[2].camera
    /\ loc[t].pre.EVENTS[1].timestamp = 0
    /\ LAST_SEEN[<<"alice", "cam1">>] = 30000
    /\ loc[t].pre.LAST_SEEN = LAST_SEEN

\* C20: within one process lifetime and with requests handled one at a time,
\* the event list never holds two events of one (person, camera) less than 30
\* seconds apart: the events of a key appended since startup are in strictly
\* increasing timestamp order with gaps of at least 30 seconds, after any
\* sequence of /match, POST /events and /events/clear.
C20_NoNearDuplicates ==
  \A i, j \in 1..Len(EVENTS) :
    (/\ i < j
     /\ EVENTS[i].person = EVENTS[j].person
     /\ EVENTS[i].camera = EVENTS[j].camera)
    => EVENTS[j].timestamp - EVENTS[i].timestamp >= 30000

C20_Witness ==
  /\ Len(EVENTS) = 2
  /\ EVENTS[1].person = "alice" /\ EVENTS[2].person = "alice"
  /\ EVENTS[1].camera = "cam1" /\ EVENTS[2].camera = "cam1"
  /\ EVENTS[2].timestamp - EVENTS[1].timestamp = 30000
  /\ \E t \in Threads :
       /\ pc[t] = "done"
       /\ args[t].op = "add_event"
       /\ loc[t].status = "skipped_duplicate"
       /\ loc[t].ts < EVENTS[2].timestamp

\* C21: /events/clear empties the event list and the events file and leaves
\* the debounce cache as it was, so an event of a (person, camera) submitted
\* less than 30 seconds, by timestamp, after that key's last accepted event is
\* still skipped as a duplicate after the clear, and the list stays empty.
C21_ClearKeepsCache ==
  \A t \in Threads :
    /\ (pc[t] = "done" /\ args[t].op = "clear_events")
       => /\ EVENTS = <<>>
          /\ eventsFile = [exists |-> TRUE, text |-> DumpsEvents(<<>>)]
          /\ LAST_SEEN = loc[t].pre.LAST_SEEN
    /\ (/\ pc[t] = "done"
        /\ args[t].op = "add_event"
        /\ loc[t].pre.EVENTS = <<>>
        /\ loc[t].pre.LAST_SEEN[KeyOf(t)] # NoTs
        /\ loc[t].ts - loc[t].pre.LAST_SEEN[KeyOf(t)] < 30000)
       => /\ loc[t].status = "skipped_duplicate"
          /\ EVENTS = <<>>

C21_Witness ==
  \E t \in Threads :
    /\ pc[t] = "done"
    /\ args[t].op = "add_event"
    /\ loc[t].pre.EVENTS = <<>>
    /\ loc[t].pre.eventsFile = [exists |-> TRUE, text |-> DumpsEvents(<<>>)]
    /\ loc[t].pre.LAST_SEEN[KeyOf(t)] = 0
    /\ loc[t].ts = 29999
    /\ loc[t].status = "skipped_duplicate"
    /\ EVENTS = <<>>

\* Thread t holds the answer to the POST /events of a worker's frame.
FramePosted(t) ==
  pc[t] = "done" /\ args[t].op = "add_event" /\ loc[t].frame.posted

\* The POST /events of t's frame arrived less than 30 seconds after the frame's
\* /match reported its match.
ArrivedSoon(t) == loc[t].frame.is_match /\ loc[t].ts - loc[t].frame.ts < 30000

\* What holds of every frame, whatever /match did: a frame that did not match
\* posts 'unknown' and its /match added nothing; a frame that matched posts the
\* key of the /match; the frame adds at most one event.
FrameBasics(t) ==
  /\ ~loc[t].frame.is_match =>
       /\ args[t].person = "unknown"
       /\ loc[t].pre.EVENTS = loc[t].frame.EVENTS
       /\ Len(EVENTS) <= Len(loc[t].frame.EVENTS) + 1
  /\ ArrivedSoon(t) =>
       /\ KeyOf(t) = loc[t].frame.key
       /\ Len(EVENTS) <= Len(loc[t].frame.EVENTS) + 1

\* C22: a frame processed by the folder worker adds at most one event: when
\* /match reports a match, the worker's POST /events for the same (best name,
\* camera), arriving less than 30 seconds later, is always skipped as a
\* duplicate, whether /match logged the event or suppressed it; when /match
\* reports no match, only the worker's POST for 'unknown' can add an event.
C22_FrameOneEvent ==
  \A t \in Threads :
    FramePosted(t) =>
      /\ FrameBasics(t)
      /\ ArrivedSoon(t) => loc[t].status = "skipped_duplicate"

\* C22, amended: a frame adds at most one event: after a /match that logged
\* its event, the worker's POST arriving less than 30 seconds later is skipped;
\* after a /match whose event was suppressed, that POST is skipped unless at
\* its arrival 30 seconds have passed since the key's last accepted event, and
\* then it is logged; after no match only the POST for 'unknown' can add one.
C22_FrameOneEventAmended ==
  \A t \in Threads :
    FramePosted(t) =>
      /\ FrameBasics(t)
      /\ (ArrivedSoon(t) /\ loc[t].frame.logged) =>
           loc[t].status = "skipped_duplicate"
      /\ (ArrivedSoon(t) /\ ~loc[t].frame.logged) =>
           (loc[t].status = "logged" <=> loc[t].ts - loc[t].frame.last >= 30000)

C22_Witness ==
  \E t \in Threads :
    /\ FramePosted(t)
    /\ ArrivedSoon(t)
    /\ ~loc[t].frame.logged
    /\ loc[t].frame.ts = 29999
    /\ loc[t].ts = 30000
    /\ loc[t].status = "logged"
    /\ Len(EVENTS) = Len(loc[t].frame.EVENTS) + 1

====
